---- MODULE Spec2Model ----
(***************************************************************************)
(* evalkit: the multi-stage evaluation pipeline, its confidence router,    *)
(* the gate-policy engine, the cache-key derivation, the evaluation cache  *)
(* and the /v1/evaluate request handler.                                   *)
(*                                                                         *)
(* Number representation                                                   *)
(*   confidences, metrics, thresholds : hundredths (0.80 is 80)            *)
(*   Decimal money                    : units of 1e-8 dollar (exact)       *)
(*   Python float money               : IEEE-754 binary64, see ToFloat     *)
(***************************************************************************)
EXTENDS Integers, Sequences, FiniteSets, TLC

\* Python None: "None" where a str is expected, Null where a number is, and
\* the empty sequence where an object is (Some(x) is the object x)
None == "None"
Null == 0 - 1
Nothing == <<>>
Some(x) == <<x>>
The(o) == o[1]

Min(a, b) == IF a < b THEN a ELSE b
Max(a, b) == IF a > b THEN a ELSE b

(***************************************************************************)
(* Text.  A str is kept as the number of characters str.strip() removes    *)
(* (pad), the number it keeps (core) and the number of tokens the          *)
(* tokenizer answers for it (tok; tiktoken is a library, its answer is     *)
(* part of the input).                                                     *)
(***************************************************************************)
Text(pad, core, tok) == [pad |-> pad, core |-> core, tok |-> tok]

TextLen(t) == t.pad + t.core
\* str.strip(): leading and trailing whitespace removed
Strip(t) == [pad |-> 0, core |-> t.core, tok |-> t.tok]
\* `not text`
IsEmpty(t) == TextLen(t) = 0

TEmpty == Text(0, 0, 0)
TBlank == Text(12, 0, 2)
TShort == Text(4, 9, 3)
TLong == Text(1, 40, 9)
THuge == Text(0, 600000, 130000)
TQuery == Text(0, 1, 1)

\* TokenCounter.count
Count(t) == IF IsEmpty(t) THEN 0 ELSE t.tok

(***************************************************************************)
(* Decimal cost.  PRICING is dollars per million tokens; one token of      *)
(* gpt-4o input costs 2.50 / 1e6 dollar = 250 units.                       *)
(***************************************************************************)
PRICING ==
    [m \in {"gpt-4o", "gpt-4o-mini", "gpt-4-turbo",
            "claude-sonnet-4-20250514", "claude-3-5-haiku-20241022"} |->
        CASE m = "gpt-4o" -> [input |-> 250, output |-> 1000]
          [] m = "gpt-4o-mini" -> [input |-> 15, output |-> 60]
          [] m = "gpt-4-turbo" -> [input |-> 1000, output |-> 3000]
          [] m = "claude-sonnet-4-20250514" -> [input |-> 300, output |-> 1500]
          [] m = "claude-3-5-haiku-20241022" -> [input |-> 100, output |-> 500]]

\* CostCalculator.calculate (utils/cost.py): unknown models priced as gpt-4o-mini
Calculate(model, input_tokens, output_tokens) ==
    LET pricing == IF model \in DOMAIN PRICING THEN PRICING[model]
                   ELSE PRICING["gpt-4o-mini"]
    IN  input_tokens * pricing.input + output_tokens * pricing.output

(***************************************************************************)
(* Python float.  float(Decimal) is the binary64 nearest to the decimal    *)
(* (round-half-even) and float + float is the exact sum rounded the same   *)
(* way.  A float below 1.0 is kept as [e, m]: m is the 53-bit significand, *)
(* most significant bit first (m[1] = 1), and its value is                 *)
(* 0.m[1]m[2]...m[53] (binary) * 2^(-e).  Zero is [e |-> 0, m |-> <<>>].   *)
(***************************************************************************)
Unit == 10^8
MantissaBits == 53

FZero == [e |-> 0, m |-> <<>>]

Zeros(k) == [i \in 1..k |-> 0]

\* m + 1 on a bit sequence, most significant bit first; a carry out of the
\* top makes the sequence one bit longer
IncBits(m) ==
    IF \A i \in 1..Len(m) : m[i] = 1 THEN <<1>> \o Zeros(Len(m))
    ELSE LET p == CHOOSE i \in 1..Len(m) :
                      m[i] = 0 /\ \A j \in (i + 1)..Len(m) : m[j] = 1
         IN  [i \in 1..Len(m) |-> IF i < p THEN m[i] ELSE IF i = p THEN 1 ELSE 0]

\* Round the bit string 0.s * 2^(-e) (s[1] = 1) to MantissaBits bits,
\* half to even; sticky says that non-zero bits follow s
RoundBits(e, s, sticky) ==
    IF Len(s) <= MantissaBits
    THEN [e |-> e, m |-> s \o Zeros(MantissaBits - Len(s))]
    ELSE LET keep == SubSeq(s, 1, MantissaBits)
             guard == s[MantissaBits + 1]
             rest == sticky \/ \E i \in (MantissaBits + 2)..Len(s) : s[i] = 1
             up == guard = 1 /\ (rest \/ keep[MantissaBits] = 1)
             inc == IncBits(keep)
         IN  IF ~up THEN [e |-> e, m |-> keep]
             ELSE IF Len(inc) = MantissaBits THEN [e |-> e, m |-> inc]
             ELSE [e |-> e - 1, m |-> SubSeq(inc, 1, MantissaBits)]

\* the number of zero binary digits before the first one digit of n / Unit
LeadingZeros(n) ==
    CHOOSE z \in 0..27 : n * 2^z < Unit /\ n * 2^(z + 1) >= Unit

\* long division, four binary digits a step: what is left of r after j steps
RECURSIVE Rem16(_, _)
Rem16(r, j) == IF j = 0 THEN r ELSE (16 * Rem16(r, j - 1)) % Unit

\* binary digit i of r / Unit (r < Unit)
FracBit(r, i) ==
    LET d == (16 * Rem16(r, (i - 1) \div 4)) \div Unit
    IN  (d \div 2^(3 - ((i - 1) % 4))) % 2

\* float(Decimal(n) / 1e8) for 0 <= n < Unit
ToFloat(n) ==
    IF n = 0 THEN FZero
    ELSE LET z == LeadingZeros(n)
             r == n * 2^z
         IN  RoundBits(z, [i \in 1..(MantissaBits + 3) |-> FracBit(r, i)],
                       Rem16(r, (MantissaBits + 3) \div 4) # 0)

\* the carry into digit i of x + y (equally long, most significant first)
Carry(x, y, i) ==
    \E j \in (i + 1)..Len(x) :
        /\ x[j] = 1 /\ y[j] = 1
        /\ \A k \in (i + 1)..(j - 1) : x[k] + y[k] = 1

\* x + y: the sum, one digit longer
AddBits(x, y) ==
    [i \in 1..(Len(x) + 1) |->
        IF i = 1 THEN (IF Carry(x, y, 0) THEN 1 ELSE 0)
        ELSE (x[i - 1] + y[i - 1] + (IF Carry(x, y, i - 1) THEN 1 ELSE 0)) % 2]

DropZeros(s) ==
    IF \A i \in 1..Len(s) : s[i] = 0 THEN <<>>
    ELSE LET p == CHOOSE i \in 1..Len(s) :
                      s[i] = 1 /\ \A j \in 1..(i - 1) : s[j] = 0
         IN  SubSeq(s, p, Len(s))

\* float.__add__
FAdd(a, b) ==
    IF a = FZero THEN b
    ELSE IF b = FZero THEN a
    ELSE LET lo == Min(a.e, b.e)
             hi == Max(a.e, b.e) + MantissaBits
             xa == Zeros(a.e - lo) \o a.m \o Zeros(hi - a.e - MantissaBits)
             xb == Zeros(b.e - lo) \o b.m \o Zeros(hi - b.e - MantissaBits)
             \* digit i of the sum weighs 2^(-(lo - 1 + i))
             sum == AddBits(xa, xb)
             s == DropZeros(sum)
         IN  RoundBits(lo - 1 + (Len(sum) - Len(s)), s, FALSE)

\* 1.0
FOne == [e |-> 0 - 1, m |-> <<1>> \o Zeros(MantissaBits - 1)]

\* a < b on positive floats
FLess(a, b) ==
    IF a = FZero THEN b # FZero
    ELSE IF b = FZero THEN FALSE
    ELSE IF a.e # b.e THEN a.e > b.e
    ELSE \E i \in 1..MantissaBits :
            /\ a.m[i] < b.m[i]
            /\ \A j \in 1..(i - 1) : a.m[j] = b.m[j]

\* min(a, b)
FMin(a, b) == IF FLess(b, a) THEN b ELSE a

\* the float a literal of h hundredths denotes
Hundredth(h) == ToFloat(h * (Unit \div 100))

(***************************************************************************)
(* Python dict: a function on the keys present.                            *)
(***************************************************************************)
\* dict.get(k, default): the default for a key left out, None (Null) for a
\* key given as None
GetOr(d, k, default) == IF k \in DOMAIN d THEN d[k] ELSE default
Update(d, u) ==
    [k \in DOMAIN d \cup DOMAIN u |-> IF k \in DOMAIN u THEN u[k] ELSE d[k]]
Restrict(d, keys) == [k \in DOMAIN d \cap keys |-> d[k]]

(***************************************************************************)
(* ContextChunk and CanonicalEvaluation (schemas/canonical.py), and the    *)
(* canonical inputs a caller of the pipeline is given.                     *)
(***************************************************************************)
EmptyDict == [k \in {} |-> Null]

ContextChunk(text, source_id, rank, score, metadata) ==
    [text |-> text, source_id |-> source_id, rank |-> rank, score |-> score,
     metadata |-> metadata]

CanonicalEvaluation(q, r, chunks, metadata, latency, judge) ==
    [query |-> q, response |-> r, context_chunks |-> chunks,
     metadata |-> metadata, total_latency_ms |-> latency,
     judge_model |-> judge, evaluator_version |-> "3", policy_version |-> 1]

\* normalize_api_request on the plain `context` list: source_id chunk_<index>,
\* rank = index + 1, no score, no chunk metadata
ChunksOfContext(context) ==
    [i \in 1..Len(context) |->
        ContextChunk(context[i], <<"chunk", i - 1>>, i, Null, EmptyDict)]

\* normalize_api_request for a request that carries `context`
NormalizeApiRequest(request) ==
    CanonicalEvaluation(request.query, request.response,
                        ChunksOfContext(request.context), request.metadata, Null,
                        GetOr(request.metadata, "judge_model", "gpt-4o-mini"))

MaxChunks == 2

Queries == {TEmpty, TQuery, THuge}
Responses == {TEmpty, TBlank, TShort, TLong}
ChunkTexts == {TShort, TLong}
Contexts == UNION {[1..n -> ChunkTexts] : n \in 0..MaxChunks}
Metadatas == {EmptyDict, [model |-> "gpt-4o-mini"]}
Latencies == {Null, 6000}

Inputs ==
    {CanonicalEvaluation(q, r, ChunksOfContext(c), m, l, "gpt-4o-mini") :
        q \in Queries, r \in Responses, c \in Contexts,
        m \in Metadatas, l \in Latencies}

(***************************************************************************)
(* MultiStageEvaluationPipeline                                            *)
(***************************************************************************)
SettingsThreshold == 80
SmallModel == "gpt-4o-mini"
LargeModel == "gpt-4o"
MinTrimmedLen == 10
TokenLimit == 128000
StageOutputTokens == 500

\* __init__: confidence_threshold or settings.confidence_threshold
PipelineThreshold(arg) ==
    IF arg = Null \/ arg = 0 THEN SettingsThreshold ELSE arg

Issue(code, severity) == [code |-> code, severity |-> severity]

RECURSIVE SumTokens(_)
SumTokens(chunks) ==
    IF chunks = <<>> THEN 0
    ELSE Count(Head(chunks).text) + SumTokens(Tail(chunks))

TotalTokens(c) ==
    Count(c.query) + SumTokens(c.context_chunks) + Count(c.response)

\* the response check of stage_1_deterministic
EmptyAnswer(c) ==
    IsEmpty(c.response) \/ TextLen(Strip(c.response)) < MinTrimmedLen

\* the context check of stage_1_deterministic
NoContext(c) ==
    \/ c.context_chunks = <<>>
    \/ \A i \in 1..Len(c.context_chunks) :
           TextLen(Strip(c.context_chunks[i].text)) < MinTrimmedLen

\* variant: Stage 1 is always certain
Stage1Confidence_Certain(issues) == 100

\* the confidence stage_1_deterministic reports
Stage1Confidence(issues) == IF issues # <<>> THEN 30 ELSE 60

\* stage_1_deterministic
Stage1Deterministic(c) ==
    LET total_tokens == TotalTokens(c)
        issues ==
            (IF EmptyAnswer(c) THEN <<Issue("EMPTY_ANSWER", "P0")>> ELSE <<>>)
            \o (IF NoContext(c) THEN <<Issue("NO_CONTEXT", "P0")>> ELSE <<>>)
            \o (IF total_tokens > TokenLimit
                THEN <<Issue("TOKEN_LIMIT_EXCEEDED", "P1")>> ELSE <<>>)
        model == GetOr(c.metadata, "model", "gpt-4o")
        response_tokens == Count(c.response)
        cost == Calculate(model, total_tokens - response_tokens, response_tokens)
    IN  [issues |-> issues,
         metrics |->
            [response_latency_ms |->
                IF c.total_latency_ms = Null \/ c.total_latency_ms = 0
                THEN 0 ELSE c.total_latency_ms,
             total_tokens |-> total_tokens,
             \* float(cost); a Decimal of so few digits survives float() and
             \* str() unchanged, so the metric is kept as the Decimal
             cost_per_query |-> cost],
         confidence |-> Stage1Confidence(issues)]

\* variant: no issue counts as a P0 failure
HasP0Failures_Never(d) == FALSE

\* DeterministicResult.has_p0_failures
HasP0Failures(d) == \E i \in 1..Len(d.issues) : d.issues[i].severity = "P0"

\* variant: the threshold itself is not enough to stop
StopAfterStage1_Strict(d, threshold) == d.confidence > threshold

\* evaluate, line 52: the clean Stage-1 result is returned as it is
StopAfterStage1(d, threshold) == d.confidence >= threshold

\* variant: an unconfident Stage 2 is run again
AfterStage2_Again(s, threshold) ==
    IF s.confidence >= threshold THEN "returned" ELSE "stage2"

\* evaluate, line 62: the Stage-2 result is returned, or Stage 3 is next
AfterStage2(s, threshold) ==
    IF s.confidence >= threshold THEN "returned" ELSE "stage3"

\* _run_ragas
RunRagas(c, model) ==
    [faithfulness |-> 85, answer_relevancy |-> 82,
     context_precision |-> 78, context_recall |-> 75]

\* _run_hallucination_check
RunHallucinationCheck(c, model) == 12

\* the four scores the confidence functions read, 0.5 for a missing one
Scores(metrics) ==
    <<GetOr(metrics, "faithfulness", 50), GetOr(metrics, "answer_relevancy", 50),
      GetOr(metrics, "context_precision", 50), GetOr(metrics, "context_recall", 50)>>

\* 16 * 10^4 * variance of four scores given in hundredths:
\* variance = sum((s - mean)^2) / 4 = (4 * sum(s^2) - sum(s)^2) / 16
Variance16(s) ==
    4 * (s[1] * s[1] + s[2] * s[2] + s[3] * s[3] + s[4] * s[4])
        - (s[1] + s[2] + s[3] + s[4]) * (s[1] + s[2] + s[3] + s[4])

\* variance < p / 100 and variance > p / 100
VarianceBelow(s, p) == Variance16(s) < 1600 * p
VarianceAbove(s, p) == Variance16(s) > 1600 * p

\* MultiStageEvaluationPipeline._calculate_confidence
PipelineConfidence(metrics) ==
    IF VarianceBelow(Scores(metrics), 5) THEN 90
    ELSE IF VarianceBelow(Scores(metrics), 15) THEN 70
    ELSE 40

\* _calculate_stage_cost
StageCost(c, model) == Calculate(model, TotalTokens(c), StageOutputTokens)

\* stage_2_small_model
Stage2SmallModel(c, d) ==
    LET metrics == Update(RunRagas(c, SmallModel),
                          [hallucination_score |-> RunHallucinationCheck(c, SmallModel)])
    IN  [metrics |-> metrics,
         confidence |-> PipelineConfidence(metrics),
         cost |-> StageCost(c, SmallModel)]

\* stage_3_large_model
Stage3LargeModel(c) ==
    [metrics |-> Update(RunRagas(c, LargeModel),
                        [hallucination_score |-> RunHallucinationCheck(c, LargeModel)]),
     confidence |-> 100,
     cost |-> StageCost(c, LargeModel)]

\* the total_cost of _build_result: a sum of Python floats
TotalCost(d, small, large) ==
    LET stage1 == ToFloat(GetOr(d.metrics, "cost_per_query", 0))
    IN  IF large # Nothing
        THEN FAdd(FAdd(stage1, ToFloat(The(small).cost)), ToFloat(The(large).cost))
        ELSE IF small # Nothing THEN FAdd(stage1, ToFloat(The(small).cost))
        ELSE stage1

\* the tokens_used of _build_result
TokensUsed(d, small, large) == GetOr(d.metrics, "total_tokens", 0)

\* variant: only Stage 1's metrics are reported
ResultMetrics_Stage1Only(d, small, large) == d.metrics

\* the metrics of _build_result: the last stage's, with Stage 1's latency and
\* cost written over them
ResultMetrics(d, small, large) ==
    Update(IF large # Nothing THEN The(large).metrics
           ELSE IF small # Nothing THEN The(small).metrics
           ELSE d.metrics,
           Restrict(d.metrics, {"response_latency_ms", "cost_per_query"}))

\* _build_result
BuildResult(stage, d, small, large, confidence) ==
    [stage |-> stage,
     metrics |-> ResultMetrics(d, small, large),
     issues |-> d.issues,
     confidence |-> confidence,
     total_cost |-> TotalCost(d, small, large),
     tokens_used |-> TokensUsed(d, small, large)]

(***************************************************************************)
(* GatePolicyEngine                                                        *)
(***************************************************************************)
\* GatePolicy rows: thresholds in hundredths, milliseconds and cost units
Policy(f, r, p, h, l, c, v) ==
    [min_faithfulness |-> f, min_context_recall |-> r,
     min_context_precision |-> p, max_hallucination |-> h,
     max_latency_ms |-> l, max_cost_per_query |-> c, version |-> v]

\* the column defaults of models.GatePolicy
DefaultPolicy == Policy(70, 60, 60, 20, 5000, 1000000, 1)
\* every threshold breached by the judge's numbers
StrictPolicy == Policy(90, 90, 90, 10, 0, 0, 1)
\* no threshold the pipeline's numbers breach
LaxPolicy == Policy(0, 0, 0, 100, 100000, 90000000, 1)

GatePolicies ==
    {Nothing, Some(DefaultPolicy), Some(StrictPolicy), Some(LaxPolicy)}

SeverityOrder == [P0 |-> 0, P1 |-> 1, P2 |-> 2, P3 |-> 3]

\* variant: the first severity reported is kept
UpgradeSeverity_KeepFirst(current, new) ==
    IF current = "P3" THEN new ELSE current

UpgradeSeverity_Latest(current, new) == new

\* _upgrade_severity
UpgradeSeverity(current, new) ==
    IF GetOr(SeverityOrder, new, 3) < GetOr(SeverityOrder, current, 3)
    THEN new ELSE current

\* one failure code appended and the severity upgraded
Fail(g, code, severity) ==
    [failure_codes |-> Append(g.failure_codes, code),
     severity |-> UpgradeSeverity(g.severity, severity)]

\* failure_codes = [] and severity = "P3"
GateStart == [failure_codes |-> <<>>, severity |-> "P3"]

\* the loop over the deterministic issues
RECURSIVE AbsorbIssues(_, _)
AbsorbIssues(g, issues) ==
    IF issues = <<>> THEN g
    ELSE AbsorbIssues(Fail(g, Head(issues).code, Head(issues).severity),
                      Tail(issues))

\* metrics.get(k) is not None
HasMetric(metrics, k) == k \in DOMAIN metrics /\ metrics[k] # Null

FaithfulnessSeverity_AlwaysP2(faithfulness) == "P2"

\* the severity of a faithfulness breach
FaithfulnessSeverity(faithfulness) == IF faithfulness < 50 THEN "P1" ELSE "P2"

\* the severity of a hallucination breach
HallucinationSeverity(hallucination) ==
    IF hallucination > 40 THEN "P1" ELSE "P2"

NumChecks == 6

\* the k-th threshold check of evaluate, in the order of the code
ThresholdCheck(k, g, metrics, policy) ==
    IF k = 1 THEN
        IF /\ HasMetric(metrics, "faithfulness")
           /\ metrics["faithfulness"] < policy.min_faithfulness
        THEN Fail(g, "LOW_FAITHFULNESS",
                  FaithfulnessSeverity(metrics["faithfulness"]))
        ELSE g
    ELSE IF k = 2 THEN
        IF /\ HasMetric(metrics, "context_recall")
           /\ metrics["context_recall"] < policy.min_context_recall
        THEN Fail(g, "LOW_RECALL", "P2") ELSE g
    ELSE IF k = 3 THEN
        IF /\ HasMetric(metrics, "context_precision")
           /\ metrics["context_precision"] < policy.min_context_precision
        THEN Fail(g, "LOW_PRECISION", "P2") ELSE g
    ELSE IF k = 4 THEN
        IF /\ HasMetric(metrics, "hallucination_score")
           /\ metrics["hallucination_score"] > policy.max_hallucination
        THEN Fail(g, "HALLUCINATION",
                  HallucinationSeverity(metrics["hallucination_score"]))
        ELSE g
    ELSE IF k = 5 THEN
        IF /\ HasMetric(metrics, "response_latency_ms")
           /\ metrics["response_latency_ms"] > policy.max_latency_ms
        THEN Fail(g, "TOO_SLOW", "P2") ELSE g
    ELSE
        IF /\ HasMetric(metrics, "cost_per_query")
           /\ metrics["cost_per_query"] > policy.max_cost_per_query
        THEN Fail(g, "TOO_EXPENSIVE", "P2") ELSE g

\* the threshold checks one after the other
RECURSIVE ChecksFrom(_, _, _, _)
ChecksFrom(k, g, metrics, policy) ==
    IF k > NumChecks THEN g
    ELSE ChecksFrom(k + 1, ThresholdCheck(k, g, metrics, policy), metrics, policy)

CheckThresholds(g0, metrics, policy) == ChecksFrom(1, g0, metrics, policy)

Decide_ByCodes(severity, failure_codes) ==
    IF severity = "P0" THEN "fail"
    ELSE IF failure_codes # <<>> THEN "warn"
    ELSE "pass"

\* the decision GatePolicyEngine.evaluate derives
Decide(severity, failure_codes) ==
    IF severity = "P0" THEN "fail"
    ELSE IF severity = "P1" THEN "fail"
    ELSE IF failure_codes # <<>> THEN "warn"
    ELSE "pass"

\* the tuple evaluate returns
GateReturned(g) ==
    [decision |-> Decide(g.severity, g.failure_codes),
     severity |-> g.severity,
     failure_codes |-> g.failure_codes]

GateEvaluate_DefaultPolicy(metrics, policy, issues) ==
    GateReturned(CheckThresholds(AbsorbIssues(GateStart, issues), metrics,
                                 IF policy # Nothing THEN The(policy)
                                 ELSE DefaultPolicy))

\* GatePolicyEngine.evaluate
GateEvaluate(metrics, policy, issues) ==
    LET g0 == AbsorbIssues(GateStart, issues)
        g == IF policy # Nothing THEN CheckThresholds(g0, metrics, The(policy))
             ELSE g0
    IN  GateReturned(g)

(***************************************************************************)
(* ConfidenceRouter                                                        *)
(***************************************************************************)
DEFAULT_THRESHOLD == 80

\* __init__: confidence_threshold or self.DEFAULT_THRESHOLD
RouterThreshold(arg) ==
    IF arg = Null \/ arg = 0 THEN DEFAULT_THRESHOLD ELSE arg

RoutingDecision(escalate, reason, confidence) ==
    [should_escalate |-> escalate, reason |-> reason, confidence |-> confidence]

\* _has_metric_disagreement
HasMetricDisagreement(metrics) == VarianceAbove(Scores(metrics), 15)

\* the small_model branch of should_escalate
EscalateFromSmall(threshold, metrics, confidence) ==
    IF confidence >= threshold
    THEN RoutingDecision(FALSE, "High confidence from small model", confidence)
    ELSE IF HasMetricDisagreement(metrics)
    THEN RoutingDecision(TRUE,
            "Metric disagreement detected, escalating to large model", confidence)
    ELSE RoutingDecision(TRUE, "Low confidence, escalating to large model",
                         confidence)

\* the deterministic branch of should_escalate
EscalateFromDeterministic(threshold, confidence) ==
    IF confidence >= threshold
    THEN RoutingDecision(FALSE, "High confidence from deterministic checks",
                         confidence)
    ELSE RoutingDecision(TRUE, "Low confidence, escalating to small model",
                         confidence)

\* the final branch of should_escalate
EscalateFromFinal(confidence) ==
    RoutingDecision(FALSE, "Final stage reached", 100)

\* should_escalate
ShouldEscalate(threshold, metrics, current_stage, confidence) ==
    IF current_stage = "deterministic"
    THEN EscalateFromDeterministic(threshold, confidence)
    ELSE IF current_stage = "small_model"
    THEN EscalateFromSmall(threshold, metrics, confidence)
    ELSE EscalateFromFinal(confidence)

\* mean > 0.9 or mean < 0.3, on four scores in hundredths
ExtremeMean(s) ==
    LET total == s[1] + s[2] + s[3] + s[4]
    IN  total > 4 * 90 \/ total < 4 * 30

\* the confidence of the variance band, in hundredths
ConfidenceBand(s) ==
    IF VarianceBelow(s, 5) THEN 90
    ELSE IF VarianceBelow(s, 10) THEN 80
    ELSE IF VarianceBelow(s, 15) THEN 70
    ELSE 50

\* ConfidenceRouter.calculate_confidence: a Python float
CalculateConfidence(metrics) ==
    LET confidence == Hundredth(ConfidenceBand(Scores(metrics)))
    IN  IF ExtremeMean(Scores(metrics))
        THEN FMin(FOne, FAdd(confidence, Hundredth(10)))
        ELSE confidence

\* should_escalate(metrics, "small_model", calculate_confidence(metrics)) of
\* a router of threshold t hundredths: the two floats compared
EscalatesOnOwnConfidence(t, metrics) ==
    FLess(CalculateConfidence(metrics), Hundredth(t))

(***************************************************************************)
(* AutoFixEngine                                                           *)
(***************************************************************************)
\* truthiness of an optional number
Truthy(v) == v # Null /\ v # 0

\* str.startswith("gpt-4") on the model names of the price tables
StartsWithGpt4(model) == model \in {"gpt-4o", "gpt-4o-mini", "gpt-4-turbo"}

ScoredChunks(c) ==
    {i \in 1..Len(c.context_chunks) : Truthy(c.context_chunks[i].score)}

RECURSIVE SumScores(_, _)
SumScores(chunks, idx) ==
    IF idx = {} THEN 0
    ELSE LET i == CHOOSE j \in idx : TRUE
         IN  chunks[i].score + SumScores(chunks, idx \ {i})

Recommendation(name, type, current, recommended, confidence) ==
    [rule_name |-> name, type |-> type, current_value |-> current,
     recommended_value |-> recommended, confidence |-> confidence]

\* a comparison of v with a number: None raises TypeError
Compared(v, holds) ==
    IF v = Null THEN "raise" ELSE IF holds THEN "true" ELSE "false"

\* a and b: b is not evaluated unless a is true
AndThen(a, b) == IF a = "true" THEN b ELSE a

\* the conditions of the five rules: "true", "false", or "raise"
ChunkSizeCondition(c, m) ==
    LET faithfulness == GetOr(m, "faithfulness", 100)
        chunk_size == GetOr(c.metadata, "chunk_size", 512)
    IN  AndThen(Compared(faithfulness, faithfulness < 60),
                Compared(chunk_size, chunk_size < 200))

LowRecallCondition(c, m) ==
    LET context_recall == GetOr(m, "context_recall", 100)
        top_k == GetOr(c.metadata, "top_k", 5)
    IN  AndThen(Compared(context_recall, context_recall < 50),
                Compared(top_k, top_k <= 3))

LowRetrievalCondition(c, m) ==
    IF /\ ScoredChunks(c) # {}
       /\ SumScores(c.context_chunks, ScoredChunks(c))
              < 50 * Cardinality(ScoredChunks(c))
    THEN "true" ELSE "false"

HighHallucinationCondition(c, m) ==
    LET hallucination_score == GetOr(m, "hallucination_score", 0)
    IN  AndThen(Compared(hallucination_score, hallucination_score > 30),
                IF ~GetOr(c.metadata, "reranker", FALSE) THEN "true"
                ELSE "false")

\* None has no startswith: AttributeError
CostTooHighCondition(c, m) ==
    LET cost_per_query == GetOr(m, "cost_per_query", 0)
        model == GetOr(c.metadata, "model", "")
    IN  AndThen(Compared(cost_per_query, cost_per_query > 1000000),
                IF model = None THEN "raise"
                ELSE IF StartsWithGpt4(model) THEN "true" ELSE "false")

\* self.rules, in the order _init_rules lists them
Rules ==
    <<[name |-> "chunk_size_too_small", priority |-> 10],
      [name |-> "low_context_recall", priority |-> 8],
      [name |-> "low_retrieval_scores", priority |-> 9],
      [name |-> "high_hallucination", priority |-> 10],
      [name |-> "cost_too_high", priority |-> 5]>>

\* rule.condition(canonical, metrics)
Condition(name, c, m) ==
    CASE name = "chunk_size_too_small" -> ChunkSizeCondition(c, m)
      [] name = "low_context_recall" -> LowRecallCondition(c, m)
      [] name = "low_retrieval_scores" -> LowRetrievalCondition(c, m)
      [] name = "high_hallucination" -> HighHallucinationCondition(c, m)
      [] name = "cost_too_high" -> CostTooHighCondition(c, m)

RuleApplies_Unguarded(name, c, m) == Condition(name, c, m) # "false"

\* AutoFixRule.applies: an exception of the condition is False
RuleApplies(name, c, m) == Condition(name, c, m) = "true"

\* rule.generate(canonical, metrics), with rec["rule_name"] set
Generate(name, c, m) ==
    CASE name = "chunk_size_too_small" ->
            Recommendation(name, "chunk_size",
                           GetOr(c.metadata, "chunk_size", Null), 512, "high")
      [] name = "low_context_recall" ->
            Recommendation(name, "top_k", GetOr(c.metadata, "top_k", Null),
                           GetOr(c.metadata, "top_k", 3) + 2, "medium")
      [] name = "low_retrieval_scores" ->
            Recommendation(name, "embedding_model",
                           GetOr(c.metadata, "embedding_model",
                                 "text-embedding-ada-002"),
                           "text-embedding-3-large", "high")
      [] name = "high_hallucination" ->
            Recommendation(name, "reranker", None, "cohere-rerank-v3", "medium")
      [] name = "cost_too_high" ->
            Recommendation(name, "model", GetOr(c.metadata, "model", None),
                           "gpt-4o-mini", "high")

\* the arithmetic of the generators on a None: TypeError
GenerateRaises(name, c, m) ==
    \/ name = "low_context_recall" /\ GetOr(c.metadata, "top_k", 3) = Null
    \/ name = "cost_too_high" /\ GetOr(m, "cost_per_query", 0) = Null

\* sorted(rules, key=lambda r: -r.priority): stable, ties in list order
SortedByPriority(rules) ==
    LET Before(i, j) ==
            \/ rules[i].priority > rules[j].priority
            \/ rules[i].priority = rules[j].priority /\ i < j
        Place(i) == 1 + Cardinality({j \in 1..Len(rules) : Before(j, i)})
    IN  [k \in 1..Len(rules) |->
            rules[CHOOSE i \in 1..Len(rules) : Place(i) = k]]

\* the loop of analyze over the sorted rules
RECURSIVE AnalyzeFrom(_, _, _)
AnalyzeFrom(rules, c, m) ==
    IF rules = <<>> THEN <<>>
    ELSE (IF RuleApplies(Head(rules).name, c, m)
          THEN <<Generate(Head(rules).name, c, m)>> ELSE <<>>)
         \o AnalyzeFrom(Tail(rules), c, m)

\* analyze does not catch what a generator raises
AnalyzeRaises(c, m) ==
    \E i \in 1..Len(Rules) :
        RuleApplies(Rules[i].name, c, m) /\ GenerateRaises(Rules[i].name, c, m)

Analyze_FirstMatch(c, m) ==
    LET all == AnalyzeFrom(SortedByPriority(Rules), c, m)
    IN  IF all = <<>> THEN <<>> ELSE <<Head(all)>>

\* AutoFixEngine.analyze
Analyze(c, m) == AnalyzeFrom(SortedByPriority(Rules), c, m)

(***************************************************************************)
(* generate_cache_key                                                      *)
(***************************************************************************)
\* hashlib.sha256 of the serialised data: a digest without collisions
Sha256(data) == <<"sha256", data>>

\* f"schema_v1|eval_v{evaluator_version}|policy_{policy_version}|judge_{judge_model}"
CacheNamespace_NoJudge(policy_version, judge_model, evaluator_version) ==
    "schema_v1|eval_v" \o evaluator_version
        \o "|policy_" \o ToString(policy_version)

CacheNamespace(policy_version, judge_model, evaluator_version) ==
    "schema_v1|eval_v" \o evaluator_version
        \o "|policy_" \o ToString(policy_version) \o "|judge_" \o judge_model

\* json.dumps of query, context_chunks (model_dump of every chunk) and response
InputHash(query, context_chunks, response) ==
    Sha256([query |-> query, context_chunks |-> context_chunks,
            response |-> response])

GenerateCacheKey(query, context_chunks, response, policy_version, judge_model, evaluator_version) ==
    LET ns == CacheNamespace(policy_version, judge_model, evaluator_version)
        h == InputHash(query, context_chunks, response)
    IN  [cache_key |-> <<"eval", ns, h>>, input_hash |-> h,
         cache_namespace |-> ns]

(***************************************************************************)
(* CostCalculator.estimate_evaluation_cost (cost/calculator.py)            *)
(***************************************************************************)
JudgeCalls == 5
JudgeOutputTokens == 50

EstimateEvaluationCost(c, pipeline_stage) ==
    LET total_input == TotalTokens(c) * JudgeCalls
        total_output == JudgeOutputTokens * JudgeCalls
        small_cost == IF pipeline_stage \in {"small_model", "large_model"}
                      THEN Calculate("gpt-4o-mini", total_input, total_output)
                      ELSE 0
        large_cost == IF pipeline_stage = "large_model"
                      THEN Calculate("gpt-4o", total_input, total_output)
                      ELSE 0
    IN  [total_cost |-> small_cost + large_cost,
         tokens_used |-> total_input + total_output]

(***************************************************************************)
(* EvaluationCache                                                         *)
(***************************************************************************)
\* float(x) if x else None
FloatOrNone(v) == IF Truthy(v) THEN v ELSE Null

\* _evaluation_to_dict (duration_ms, a wall-clock reading, is left out of
\* every response)
EvaluationToDict(row) ==
    [evaluation_id |-> row.id,
     metrics |->
        [faithfulness |-> FloatOrNone(row.metrics.faithfulness),
         answer_relevancy |-> FloatOrNone(row.metrics.answer_relevancy),
         context_precision |-> FloatOrNone(row.metrics.context_precision),
         context_recall |-> FloatOrNone(row.metrics.context_recall),
         hallucination_score |-> FloatOrNone(row.metrics.hallucination_score),
         response_latency_ms |-> row.metrics.response_latency_ms,
         cost_per_query |-> FloatOrNone(row.metrics.cost_per_query)],
     decision |-> row.decision,
     severity |-> row.metrics.severity,
     failure_codes |-> row.failure_codes,
     pipeline_stage |-> row.pipeline_stage,
     cached |-> TRUE,
     cost |-> 0,
     tokens_used |-> 0,
     autofix_available |-> row.autofix_recommendations # <<>>]

\* the rows select(Evaluation).where(Evaluation.input_hash == input_hash) finds
RowsWithHash(rows, cache_key) == {row \in rows : row.input_hash = cache_key[3]}

\* the database part of EvaluationCache.get: scalar_one_or_none raises on
\* more than one row
DbLookup(rows, cache_key) ==
    LET found == RowsWithHash(rows, cache_key)
    IN  IF Cardinality(found) > 1 THEN [outcome |-> "error", value |-> Nothing]
        ELSE IF found = {} THEN [outcome |-> "miss", value |-> Nothing]
        ELSE [outcome |-> "hit",
              value |-> Some(EvaluationToDict(CHOOSE row \in found : TRUE))]

\* EvaluationCache.get: Redis by the whole key when it answers, else the
\* database by the input hash
CacheGet(up, store, rows, cache_key) ==
    IF up /\ cache_key \in DOMAIN store
    THEN [outcome |-> "hit", value |-> Some(store[cache_key])]
    ELSE DbLookup(rows, cache_key)

\* EvaluationCache.set: setex when Redis answers, nothing otherwise
CacheSet(up, store, cache_key, value) ==
    IF up
    THEN [k \in DOMAIN store \cup {cache_key} |->
             IF k = cache_key THEN value ELSE store[k]]
    ELSE store

(***************************************************************************)
(* RAGASWrapper and DeepEvalWrapper (core/ragas_wrapper.py,                *)
(* core/deepeval_wrapper.py).  The scoring libraries are not part of the   *)
(* sources: a call of one returns scores, or raises (Nothing).             *)
(***************************************************************************)
\* min(1.0, max(0.0, x)), in hundredths
Clamp01(x) == Min(100, Max(0, x))

\* RAGASWrapper._run_mock: base and the four draws of random.uniform
RagasMock(base, draws) ==
    [outcome |-> "returned", synthetic |-> TRUE,
     metrics |-> [faithfulness |-> Clamp01(75 + base + draws[1]),
                  answer_relevancy |-> Clamp01(75 + base + draws[2]),
                  context_precision |-> Clamp01(75 + base + draws[3]),
                  context_recall |-> Clamp01(75 + base + draws[4])],
     tokens_used |-> 500, cost |-> 10000]

RagasRun_Propagates(library, mock) ==
    IF library = Nothing
    THEN [outcome |-> "raised", synthetic |-> FALSE, metrics |-> EmptyDict,
          tokens_used |-> 0, cost |-> 0]
    ELSE mock

\* RAGASWrapper._run_ragas: what the library raises is caught
RagasRun(library, mock) ==
    IF library = Nothing THEN mock
    ELSE [outcome |-> "returned", synthetic |-> FALSE, metrics |-> The(library),
          tokens_used |-> 0, cost |-> 0]

\* RAGASWrapper.evaluate
RagasEvaluate(available, library, mock) ==
    IF available THEN RagasRun(library, mock) ELSE mock

\* DeepEvalWrapper._run_mock
DeepEvalMock(draw) ==
    [outcome |-> "returned", synthetic |-> TRUE,
     metrics |-> [hallucination_score |-> Clamp01(10 + draw)],
     tokens_used |-> 200, cost |-> 5000]

\* DeepEvalWrapper._run_deepeval: 1.0 - metric.score, a failure is caught
DeepEvalRun(library, mock) ==
    IF library = Nothing THEN mock
    ELSE [outcome |-> "returned", synthetic |-> FALSE,
          metrics |-> [hallucination_score |-> 100 - The(library)],
          tokens_used |-> 200, cost |-> 10000]

\* DeepEvalWrapper.evaluate
DeepEvalEvaluate(available, library, mock) ==
    IF available THEN DeepEvalRun(library, mock) ELSE mock

(***************************************************************************)
(* The state.  Every caller of pipeline.evaluate and every request of the  *)
(* handler has a slot; the slot's fields are the locals of the coroutine.  *)
(***************************************************************************)
Reqs == {"r1", "r2"}

VARIABLES
    threshold,  \* pipeline.confidence_threshold
    pc,         \* where each coroutine is
    canonical,  \* the CanonicalEvaluation it works on
    det,        \* deterministic / small_model_result / large_model_result
    small,
    large,
    result,     \* what pipeline.evaluate returned
    ran,        \* the stage methods that have run for it, in order
    policy,     \* the GatePolicy handed to the gate
    gate,       \* what GatePolicyEngine.evaluate returned
    routed,     \* one call of ConfidenceRouter.should_escalate and its answer
    req,        \* the handler's organization, project and cache key
    response,   \* the EvaluateResponse sent
    db,         \* committed evaluation rows
    redis,      \* the Redis store
    redisUp,    \* whether Redis answers
    policies,   \* the gate_policies table, by project
    leftAt,     \* where a coroutine was when it raised or was cancelled
    gateRun,    \* one call of GatePolicyEngine.evaluate, statement by statement
    scored,     \* one call of ConfidenceRouter.calculate_confidence
    fixed,      \* one call of AutoFixEngine.analyze
    keyed,      \* two calls of generate_cache_key
    given,      \* the confidence_threshold argument the pipeline was built with
    later,      \* one more EvaluationCache.get for the key of a request
    judged      \* one call of RAGASWrapper.evaluate or DeepEvalWrapper.evaluate

vars == <<threshold, pc, canonical, det, small, large, result, ran, policy,
          gate, routed, req, response, db, redis, redisUp, policies, leftAt,
          gateRun, scored, fixed, keyed, given, later, judged>>

pipelineVars == <<canonical, det, small, large, result, ran>>
handlerVars == <<req, response, db, redis, redisUp, policies, leftAt>>
callVars == <<gateRun, scored, fixed, keyed>>
extraVars == <<given, later, judged>>

\* the confidence_threshold arguments a pipeline or router is constructed with
CtorArgs == {Null, 0, 60, 61, 90, 91}

Projects == {"p1", "p2"}

InitCommon ==
    /\ pc = [r \in Reqs |-> "idle"]
    /\ canonical = [r \in Reqs |-> Nothing]
    /\ det = [r \in Reqs |-> Nothing]
    /\ small = [r \in Reqs |-> Nothing]
    /\ large = [r \in Reqs |-> Nothing]
    /\ result = [r \in Reqs |-> Nothing]
    /\ ran = [r \in Reqs |-> <<>>]
    /\ policy = [r \in Reqs |-> Nothing]
    /\ gate = [r \in Reqs |-> Nothing]
    /\ routed = Nothing
    /\ req = [r \in Reqs |-> Nothing]
    /\ response = [r \in Reqs |-> Nothing]
    /\ db = {}
    /\ redis = [k \in {} |-> Nothing]
    /\ redisUp = TRUE
    /\ leftAt = [r \in Reqs |-> ""]
    /\ gateRun = Nothing
    /\ scored = Nothing
    /\ fixed = Nothing
    /\ keyed = Nothing
    /\ later = Nothing
    /\ judged = Nothing
    /\ policies = [p \in Projects |->
                      IF p = "p1" THEN Some(DefaultPolicy) ELSE Nothing]

\* a pipeline constructed with any of the arguments
Init ==
    /\ given \in CtorArgs
    /\ threshold = PipelineThreshold(given)
    /\ InitCommon

(***************************************************************************)
(* MultiStageEvaluationPipeline.evaluate, one action a stage               *)
(***************************************************************************)
\* a caller awaits pipeline.evaluate(canonical)
Submit(r) ==
    /\ pc[r] = "idle"
    /\ routed = Nothing
    /\ \E c \in Inputs : canonical' = [canonical EXCEPT ![r] = Some(c)]
    /\ pc' = [pc EXCEPT ![r] = "stage1"]
    /\ UNCHANGED <<callVars, threshold, extraVars, det, small, large, result, ran, policy, gate,
                   routed, handlerVars>>

\* variant: Stage 1 keeps its result on the pipeline instance, which every
\* call in flight then reads
Stage1_OnInstance(r) ==
    /\ pc[r] = "stage1"
    /\ LET c == The(canonical[r])
           d == Stage1Deterministic(c)
       IN  /\ det' = [q \in Reqs |-> Some(d)]
           /\ ran' = [ran EXCEPT ![r] = Append(@, "deterministic")]
           /\ IF HasP0Failures(d)
              THEN /\ result' = [result EXCEPT ![r] = Some(
                          BuildResult("deterministic", d, Nothing, Nothing, 100))]
                   /\ pc' = [pc EXCEPT ![r] = "returned"]
              ELSE IF StopAfterStage1(d, threshold)
              THEN /\ result' = [result EXCEPT ![r] = Some(
                          BuildResult("deterministic", d, Nothing, Nothing,
                                      d.confidence))]
                   /\ pc' = [pc EXCEPT ![r] = "returned"]
              ELSE /\ pc' = [pc EXCEPT ![r] = "stage2"]
                   /\ UNCHANGED result
    /\ UNCHANGED <<callVars, threshold, extraVars, canonical, small, large, policy, gate, routed,
                   handlerVars>>

\* lines 42-58: Stage 1, then the P0 return, the confident return, or Stage 2
Stage1(r) ==
    /\ pc[r] = "stage1"
    /\ LET c == The(canonical[r])
           d == Stage1Deterministic(c)
       IN  /\ det' = [det EXCEPT ![r] = Some(d)]
           /\ ran' = [ran EXCEPT ![r] = Append(@, "deterministic")]
           /\ IF HasP0Failures(d)
              THEN /\ result' = [result EXCEPT ![r] = Some(
                          BuildResult("deterministic", d, Nothing, Nothing, 100))]
                   /\ pc' = [pc EXCEPT ![r] = "returned"]
              ELSE IF StopAfterStage1(d, threshold)
              THEN /\ result' = [result EXCEPT ![r] = Some(
                          BuildResult("deterministic", d, Nothing, Nothing,
                                      d.confidence))]
                   /\ pc' = [pc EXCEPT ![r] = "returned"]
              ELSE /\ pc' = [pc EXCEPT ![r] = "stage2"]
                   /\ UNCHANGED result
    /\ UNCHANGED <<callVars, threshold, extraVars, canonical, small, large, policy, gate, routed,
                   handlerVars>>

\* lines 60-69: Stage 2, then the confident return or Stage 3
Stage2(r) ==
    /\ pc[r] = "stage2"
    /\ LET c == The(canonical[r])
           d == The(det[r])
           s == Stage2SmallModel(c, d)
       IN  /\ small' = [small EXCEPT ![r] = Some(s)]
           /\ ran' = [ran EXCEPT ![r] = Append(@, "small_model")]
           /\ pc' = [pc EXCEPT ![r] = AfterStage2(s, threshold)]
           /\ IF AfterStage2(s, threshold) = "returned"
              THEN result' = [result EXCEPT ![r] = Some(
                       BuildResult("small_model", d, Some(s), Nothing,
                                   s.confidence))]
              ELSE UNCHANGED result
    /\ UNCHANGED <<callVars, threshold, extraVars, canonical, det, large, policy, gate, routed,
                   handlerVars>>

\* lines 71-80: Stage 3 and the final return
Stage3(r) ==
    /\ pc[r] = "stage3"
    /\ LET c == The(canonical[r])
           l == Stage3LargeModel(c)
       IN  /\ large' = [large EXCEPT ![r] = Some(l)]
           /\ ran' = [ran EXCEPT ![r] = Append(@, "large_model")]
           /\ result' = [result EXCEPT ![r] = Some(
                  BuildResult("large_model", The(det[r]), small[r], Some(l), 100))]
           /\ pc' = [pc EXCEPT ![r] = "returned"]
    /\ UNCHANGED <<callVars, threshold, extraVars, canonical, det, small, policy, gate, routed,
                   handlerVars>>

\* the caller hands the result to GatePolicyEngine.evaluate under a policy
ApplyGate(r) ==
    /\ pc[r] = "returned"
    /\ \E p \in GatePolicies :
          /\ policy' = [policy EXCEPT ![r] = p]
          /\ gate' = [gate EXCEPT ![r] = Some(
                 GateEvaluate(The(result[r]).metrics, p, The(result[r]).issues))]
    /\ pc' = [pc EXCEPT ![r] = "gated"]
    /\ UNCHANGED <<callVars, threshold, extraVars, pipelineVars, routed, handlerVars>>

(***************************************************************************)
(* ConfidenceRouter: one call of should_escalate on a router constructed   *)
(* with any of the arguments                                               *)
(***************************************************************************)
Metrics4(f, a, p, r) ==
    [faithfulness |-> f, answer_relevancy |-> a,
     context_precision |-> p, context_recall |-> r]

RouterMetrics ==
    {EmptyDict, [faithfulness |-> 100], Metrics4(85, 82, 78, 75),
     Metrics4(90, 90, 90, 90), Metrics4(0, 0, 100, 100),
     Metrics4(10, 10, 90, 90), Metrics4(12, 12, 90, 90),
     Metrics4(20, 20, 80, 80), Metrics4(100, 100, 100, 0)}

RouterStages == {"deterministic", "small_model", "large_model"}
RouterConfidences == {0, 30, 59, 60, 79, 80, 89, 90, 100}

RouterCall ==
    /\ routed = Nothing
    /\ \A r \in Reqs : pc[r] = "idle"
    /\ \E arg \in CtorArgs, m \in RouterMetrics, st \in RouterStages,
          conf \in RouterConfidences :
          routed' = Some([given |-> arg,
                          threshold |-> RouterThreshold(arg), metrics |-> m,
                          current_stage |-> st, confidence |-> conf,
                          decision |-> ShouldEscalate(RouterThreshold(arg), m,
                                                      st, conf)])
    /\ UNCHANGED <<callVars, threshold, extraVars, pc, pipelineVars, policy, gate, handlerVars>>

Next ==
    \/ Submit("r1")
    \/ Stage1("r1")
    \/ Stage2("r1")
    \/ Stage3("r1")
    \/ ApplyGate("r1")
    \/ RouterCall

Spec == Init /\ [][Next]_vars

(***************************************************************************)
(* GatePolicyEngine.evaluate, one action a statement: the call, one issue  *)
(* of the loop, one threshold check, the return.                           *)
(***************************************************************************)
\* the metrics dicts a caller passes; a None value is a key not given
GateMetrics ==
    [faithfulness : {Null, 30, 55, 85}, context_recall : {50, 82},
     context_precision : {40, 78}, hallucination_score : {Null, 12, 30, 45},
     response_latency_ms : {Null, 6000}, cost_per_query : {20000, 2000000}]

\* the issue lists a caller passes
GateIssues ==
    {<<>>, <<Issue("EMPTY_ANSWER", "P0")>>,
     <<Issue("TOKEN_LIMIT_EXCEEDED", "P1")>>, <<Issue("STYLE", "P2")>>,
     <<Issue("NOTE", "P3")>>,
     <<Issue("TOKEN_LIMIT_EXCEEDED", "P1"), Issue("EMPTY_ANSWER", "P0")>>,
     <<Issue("NO_CONTEXT", "P0"), Issue("STYLE", "P2")>>,
     <<Issue("NOTE", "P3"), Issue("TOKEN_LIMIT_EXCEEDED", "P1")>>,
     <<Issue("EMPTY_ANSWER", "P0"), Issue("NO_CONTEXT", "P0")>>,
     <<Issue("STYLE", "P2"), Issue("TOKEN_LIMIT_EXCEEDED", "P1"),
       Issue("TONE", "P2")>>}

InitGate ==
    /\ given = Null
    /\ threshold = SettingsThreshold
    /\ InitCommon

\* lines 40-41
GateCall ==
    /\ gateRun = Nothing
    /\ \A r \in Reqs : pc[r] = "idle"
    /\ \E m \in GateMetrics, p \in GatePolicies, i \in GateIssues :
          gateRun' = Some([metrics |-> m, policy |-> p, issues |-> i,
                           absorbed |-> 0, checked |-> 0, g |-> GateStart,
                           out |-> Nothing])
    /\ UNCHANGED <<scored, fixed, keyed, threshold, extraVars, pc, pipelineVars, policy,
                   gate, routed, handlerVars>>

\* lines 44-47: one turn of the loop
GateAbsorb ==
    /\ gateRun # Nothing
    /\ The(gateRun).absorbed < Len(The(gateRun).issues)
    /\ LET run == The(gateRun)
           issue == run.issues[run.absorbed + 1]
       IN  gateRun' = Some([run EXCEPT
                               !.g = Fail(run.g, issue.code, issue.severity),
                               !.absorbed = run.absorbed + 1])
    /\ UNCHANGED <<scored, fixed, keyed, threshold, extraVars, pc, pipelineVars, policy,
                   gate, routed, handlerVars>>

\* lines 50-98: the next threshold check
GateCheck ==
    /\ gateRun # Nothing
    /\ The(gateRun).absorbed = Len(The(gateRun).issues)
    /\ The(gateRun).policy # Nothing
    /\ The(gateRun).checked < NumChecks
    /\ LET run == The(gateRun)
       IN  gateRun' = Some([run EXCEPT
                               !.g = ThresholdCheck(run.checked + 1, run.g,
                                        run.metrics, The(run.policy)),
                               !.checked = run.checked + 1])
    /\ UNCHANGED <<scored, fixed, keyed, threshold, extraVars, pc, pipelineVars, policy,
                   gate, routed, handlerVars>>

\* lines 100-110
GateReturn ==
    /\ gateRun # Nothing
    /\ The(gateRun).out = Nothing
    /\ The(gateRun).absorbed = Len(The(gateRun).issues)
    /\ The(gateRun).policy = Nothing \/ The(gateRun).checked = NumChecks
    /\ gateRun' = Some([The(gateRun) EXCEPT
                           !.out = Some(GateReturned(The(gateRun).g))])
    /\ UNCHANGED <<scored, fixed, keyed, threshold, extraVars, pc, pipelineVars, policy,
                   gate, routed, handlerVars>>

NextGate ==
    \/ GateCall
    \/ GateAbsorb
    \/ GateCheck
    \/ GateReturn

SpecGate == InitGate /\ [][NextGate]_vars

(***************************************************************************)
(* ConfidenceRouter.calculate_confidence, called on its own                *)
(***************************************************************************)
\* metric values whose variance and mean, computed in floats, fall on the
\* same side of every band edge as the exact ones
ConfidenceGrid == {0, 20, 50, 80, 90, 100}

ConfidenceMetrics ==
    {Metrics4(f, a, p, r) : f \in ConfidenceGrid, a \in ConfidenceGrid,
                            p \in ConfidenceGrid, r \in ConfidenceGrid}
    \cup {EmptyDict, [faithfulness |-> 100]}

\* thresholds a router and a pipeline are built with
ConfidenceThresholds == {50, 80, 95}

ConfidenceCall ==
    /\ scored = Nothing
    /\ \E m \in ConfidenceMetrics, t \in ConfidenceThresholds :
          scored' = Some([metrics |-> m, confidence |-> CalculateConfidence(m),
                          threshold |-> t,
                          escalate |-> EscalatesOnOwnConfidence(t, m),
                          stage2 |-> AfterStage2(
                              [confidence |-> PipelineConfidence(m)], t)])
    /\ UNCHANGED <<gateRun, fixed, keyed, threshold, extraVars, pc, pipelineVars, policy,
                   gate, routed, handlerVars>>

NextConfidence == ConfidenceCall

SpecConfidence == InitGate /\ [][NextConfidence]_vars

(***************************************************************************)
(* AutoFixEngine.analyze, called on its own                                *)
(***************************************************************************)
\* every dict made of one part of each set
Merged(A, B) == {Update(a, b) : a \in A, b \in B}

\* metadata a client sends: each key left out, given as None, or given
AutofixMetadatas ==
    Merged(Merged({EmptyDict, [chunk_size |-> Null], [chunk_size |-> 100]},
                  {EmptyDict, [top_k |-> Null], [top_k |-> 3]}),
           Merged({EmptyDict, [reranker |-> TRUE]},
                  {EmptyDict, [model |-> None], [model |-> "gpt-4o"],
                   [model |-> "gpt-4o-mini"]}))
    \cup {[embedding_model |-> "text-embedding-3-large"]}

AutofixMetrics ==
    Merged(Merged({[faithfulness |-> 90], [faithfulness |-> Null],
                   [faithfulness |-> 50]},
                  {EmptyDict, [context_recall |-> Null], [context_recall |-> 40]}),
           Merged({EmptyDict, [hallucination_score |-> Null],
                   [hallucination_score |-> 45]},
                  {EmptyDict, [cost_per_query |-> Null],
                   [cost_per_query |-> 2000000]}))

\* the retrieval scores of the chunks, in hundredths
AutofixScores ==
    {<<>>, <<Null>>, <<0>>, <<90>>, <<0, 90>>, <<40, 40>>, <<Null, 40>>}

ScoredContext(scores) ==
    [i \in 1..Len(scores) |->
        ContextChunk(TShort, <<"chunk", i - 1>>, i, scores[i], EmptyDict)]

AnalyzeCall ==
    /\ fixed = Nothing
    /\ \E md \in AutofixMetadatas, m \in AutofixMetrics, sc \in AutofixScores :
          LET c == CanonicalEvaluation(TQuery, TLong, ScoredContext(sc), md,
                                       Null, SmallModel)
          IN  fixed' = Some([canonical |-> c, metrics |-> m,
                             raised |-> AnalyzeRaises(c, m),
                             recommendations |-> Analyze(c, m)])
    /\ UNCHANGED <<gateRun, scored, keyed, threshold, extraVars, pc, pipelineVars, policy,
                   gate, routed, handlerVars>>

NextAutofix == AnalyzeCall

SpecAutofix == InitGate /\ [][NextAutofix]_vars

(***************************************************************************)
(* generate_cache_key, called twice                                        *)
(***************************************************************************)
\* what a caller holds when it asks for a key: the canonical evaluation
\* and the moment it was created
KeyChunks ==
    LET a == ContextChunk(TShort, "doc-a", 1, 90, EmptyDict)
        b == ContextChunk(TLong, "doc-b", 2, 40, EmptyDict)
        tagged == ContextChunk(TShort, "doc-a", 1, 90, [page |-> 7])
    IN  {<<>>, <<a>>, <<tagged>>, <<a, b>>, <<b, a>>}

KeyInputs ==
    [query : {TQuery}, response : {TShort, TLong}, context_chunks : KeyChunks,
     metadata : Metadatas, created_at : {1, 2}, policy_version : {1, 2},
     judge_model : {SmallModel, LargeModel}, evaluator_version : {"3", "4"}]

KeyOf(c) ==
    GenerateCacheKey(c.query, c.context_chunks, c.response, c.policy_version,
                     c.judge_model, c.evaluator_version)

KeyCall ==
    /\ keyed = Nothing
    /\ \E c1 \in KeyInputs, c2 \in KeyInputs :
          keyed' = Some([first |-> c1, second |-> c2,
                         a |-> KeyOf(c1), b |-> KeyOf(c2)])
    /\ UNCHANGED <<gateRun, scored, fixed, threshold, extraVars, pc, pipelineVars, policy,
                   gate, routed, handlerVars>>

NextKey == KeyCall

SpecKey == InitGate /\ [][NextKey]_vars

(***************************************************************************)
(* The judge wrappers, called on their own                                 *)
(***************************************************************************)
\* random.uniform(-0.15, 0.15), random.uniform(-0.1, 0.1) and
\* random.uniform(-0.05, 0.15): the ends of each range
BaseDraws == {0 - 15, 15}
MetricDraws == {0 - 10, 0, 10}
HallucinationDraws == {0 - 5, 0, 15}

RagasCall ==
    /\ judged = Nothing
    /\ \E available \in BOOLEAN, library \in {Nothing, Some(Metrics4(85, 82, 78, 75))},
          base \in BaseDraws, draws \in [1..4 -> MetricDraws] :
          judged' = Some([wrapper |-> "ragas", available |-> available,
                          failed |-> library = Nothing,
                          result |-> RagasEvaluate(available, library,
                                                   RagasMock(base, draws))])
    /\ UNCHANGED <<callVars, threshold, given, later, pc, pipelineVars, policy,
                   gate, routed, handlerVars>>

DeepEvalCall ==
    /\ judged = Nothing
    /\ \E available \in BOOLEAN, library \in {Nothing, Some(88)},
          draw \in HallucinationDraws :
          judged' = Some([wrapper |-> "deepeval", available |-> available,
                          failed |-> library = Nothing,
                          result |-> DeepEvalEvaluate(available, library,
                                                      DeepEvalMock(draw))])
    /\ UNCHANGED <<callVars, threshold, given, later, pc, pipelineVars, policy,
                   gate, routed, handlerVars>>

NextJudge ==
    \/ RagasCall
    \/ DeepEvalCall

SpecJudge == InitGate /\ [][NextJudge]_vars

(***************************************************************************)
(* POST /v1/evaluate (api/v1/evaluate.py).  The database session          *)
(* (app/database.py) is not part of the sources: a commit makes the rows   *)
(* added to the session visible to every later query, and a request that   *)
(* ends before its commit leaves nothing behind.                           *)
(***************************************************************************)
Orgs == {"o1", "o2"}
\* the organization every project belongs to
ProjectOrg == [p \in Projects |-> IF p = "p1" THEN "o1" ELSE "o2"]

MaxPolicyVersion == 2

\* the request bodies clients send: a well-formed one, and one without context
Workload ==
    {[query |-> TQuery, response |-> TLong, context |-> <<TLong>>,
      metadata |-> EmptyDict],
     [query |-> TQuery, response |-> TLong, context |-> <<>>,
      metadata |-> EmptyDict]}

\* the module-level pipeline: MultiStageEvaluationPipeline() under the default
\* settings, and under CONFIDENCE_THRESHOLD=1.0
HandlerThresholds == {PipelineThreshold(Null), 100}

InitHandler ==
    /\ given = Null
    /\ threshold \in HandlerThresholds
    /\ InitCommon

\* a NUMERIC(10, 6) column keeps six decimal places
Numeric6(n) == ((n + 50) \div 100) * 100

\* the Evaluation row with its EvaluationMetric and AutofixRecommendation rows
EvaluationRow(id, rq, res, g, est, recs) ==
    [id |-> id,
     project_id |-> rq.project_id,
     organization_id |-> rq.organization_id,
     cache_namespace |-> rq.cache_namespace,
     input_hash |-> rq.input_hash,
     pipeline_stage |-> res.stage,
     decision |-> g.decision,
     failure_codes |-> g.failure_codes,
     total_cost |-> Numeric6(est.total_cost),
     tokens_used |-> res.tokens_used,
     metrics |->
        [faithfulness |-> GetOr(res.metrics, "faithfulness", Null),
         answer_relevancy |-> GetOr(res.metrics, "answer_relevancy", Null),
         context_precision |-> GetOr(res.metrics, "context_precision", Null),
         context_recall |-> GetOr(res.metrics, "context_recall", Null),
         hallucination_score |-> GetOr(res.metrics, "hallucination_score", Null),
         response_latency_ms |-> GetOr(res.metrics, "response_latency_ms", Null),
         cost_per_query |-> Numeric6(est.total_cost),
         severity |-> g.severity,
         confidence_score |-> res.confidence],
     autofix_recommendations |-> recs]

\* response_data, which is also what is cached
ResponseData(id, res, g, est, recs) ==
    [evaluation_id |-> id,
     metrics |->
        [faithfulness |-> GetOr(res.metrics, "faithfulness", Null),
         answer_relevancy |-> GetOr(res.metrics, "answer_relevancy", Null),
         context_precision |-> GetOr(res.metrics, "context_precision", Null),
         context_recall |-> GetOr(res.metrics, "context_recall", Null),
         hallucination_score |-> GetOr(res.metrics, "hallucination_score", Null),
         response_latency_ms |-> GetOr(res.metrics, "response_latency_ms", Null),
         cost_per_query |-> est.total_cost],
     decision |-> g.decision,
     severity |-> g.severity,
     failure_codes |-> g.failure_codes,
     pipeline_stage |-> res.stage,
     cached |-> FALSE,
     cost |-> est.total_cost,
     tokens_used |-> res.tokens_used,
     autofix_available |-> recs # <<>>]

\* lines 57-89: the project check, the policy read, normalisation, the key
Receive(r) ==
    /\ pc[r] = "idle"
    /\ \E org \in Orgs, project \in Projects, body \in Workload :
          IF ProjectOrg[project] # org
          THEN /\ pc' = [pc EXCEPT ![r] = "notfound"]
               /\ UNCHANGED <<canonical, policy, req>>
          ELSE LET pol == policies[project]
                   policy_version == IF pol # Nothing THEN The(pol).version ELSE 1
                   c == [NormalizeApiRequest(body) EXCEPT
                            !.policy_version = policy_version]
                   key == GenerateCacheKey(c.query, c.context_chunks, c.response,
                                           policy_version, c.judge_model,
                                           c.evaluator_version)
               IN  /\ canonical' = [canonical EXCEPT ![r] = Some(c)]
                   /\ policy' = [policy EXCEPT ![r] = pol]
                   /\ req' = [req EXCEPT ![r] = Some(
                          [organization_id |-> org, project_id |-> project,
                           cache_key |-> key.cache_key,
                           input_hash |-> key.input_hash,
                           cache_namespace |-> key.cache_namespace])]
                   /\ pc' = [pc EXCEPT ![r] = "lookup"]
    /\ UNCHANGED <<callVars, threshold, extraVars, det, small, large, result, ran, gate, routed,
                   response, db, redis, redisUp, policies, leftAt>>

\* lines 91-99: evaluation_cache.get; a hit is the response
Lookup(r) ==
    /\ pc[r] = "lookup"
    /\ LET got == CacheGet(redisUp, redis, db, The(req[r]).cache_key)
       IN  IF got.outcome = "hit"
           THEN /\ response' = [response EXCEPT ![r] =
                       Some([The(got.value) EXCEPT !.cached = TRUE])]
                /\ pc' = [pc EXCEPT ![r] = "done"]
           ELSE /\ pc' = [pc EXCEPT ![r] =
                       IF got.outcome = "miss" THEN "stage1" ELSE "failed"]
                /\ UNCHANGED response
    /\ UNCHANGED <<callVars, threshold, extraVars, pipelineVars, policy, gate, routed, req, db,
                   redis, redisUp, policies, leftAt>>

\* lines 105-181: the gate, the cost estimate, the rows, the commit
Persist(r) ==
    /\ pc[r] = "returned"
    /\ LET res == The(result[r])
           c == The(canonical[r])
           g == GateEvaluate(res.metrics, policy[r], res.issues)
           est == EstimateEvaluationCost(c, res.stage)
           recs == Analyze(c, res.metrics)
       IN  /\ gate' = [gate EXCEPT ![r] = Some(g)]
           /\ db' = db \cup {EvaluationRow(r, The(req[r]), res, g, est, recs)}
    /\ pc' = [pc EXCEPT ![r] = "committed"]
    /\ UNCHANGED <<callVars, threshold, extraVars, pipelineVars, policy, routed, req, response,
                   redis, redisUp, policies, leftAt>>

\* lines 183-219: the response is built, cached and sent
CacheStore(r) ==
    /\ pc[r] = "committed"
    /\ LET res == The(result[r])
           c == The(canonical[r])
           data == ResponseData(r, res, The(gate[r]),
                                EstimateEvaluationCost(c, res.stage),
                                Analyze(c, res.metrics))
       IN  /\ redis' = CacheSet(redisUp, redis, The(req[r]).cache_key, data)
           /\ response' = [response EXCEPT ![r] = Some(data)]
    /\ pc' = [pc EXCEPT ![r] = "done"]
    /\ UNCHANGED <<callVars, threshold, extraVars, pipelineVars, policy, gate, routed, req, db,
                   redisUp, policies, leftAt>>

\* variant: the rows are committed while the pipeline is still running
PipelinePositions_Late == {"stage1", "stage2", "stage3", "committed"}

\* the positions of a request inside `await pipeline.evaluate(canonical)`
PipelinePositions == {"stage1", "stage2", "stage3"}

\* the positions at which the handler is suspended in an await
AwaitPositions == {"lookup", "returned", "committed"} \cup PipelinePositions

\* pipeline.evaluate raises: the exception leaves the handler
PipelineRaise(r) ==
    /\ pc[r] \in PipelinePositions
    /\ leftAt' = [leftAt EXCEPT ![r] = pc[r]]
    /\ pc' = [pc EXCEPT ![r] = "raised"]
    /\ UNCHANGED <<callVars, threshold, extraVars, pipelineVars, policy, gate, routed, req,
                   response, db, redis, redisUp, policies>>

\* the client goes away: the coroutine is cancelled where it is suspended
Abandon(r) ==
    /\ pc[r] \in AwaitPositions
    /\ leftAt' = [leftAt EXCEPT ![r] = pc[r]]
    /\ pc' = [pc EXCEPT ![r] = "abandoned"]
    /\ UNCHANGED <<callVars, threshold, extraVars, pipelineVars, policy, gate, routed, req,
                   response, db, redis, redisUp, policies>>

\* the project's gate_policies row is replaced by its next version
UpdatePolicy(p) ==
    /\ policies[p] # Nothing
    /\ The(policies[p]).version < MaxPolicyVersion
    /\ policies' = [policies EXCEPT ![p] =
           Some([The(policies[p]) EXCEPT !.version = The(policies[p]).version + 1])]
    /\ UNCHANGED <<callVars, threshold, extraVars, pc, pipelineVars, policy, gate, routed, req,
                   response, db, redis, redisUp, leftAt>>

\* Redis stops answering, and answers again
RedisFails ==
    /\ redisUp
    /\ redisUp' = FALSE
    /\ UNCHANGED <<callVars, threshold, extraVars, pc, pipelineVars, policy, gate, routed, req,
                   response, db, redis, policies, leftAt>>

RedisRecovers ==
    /\ ~redisUp
    /\ redisUp' = TRUE
    /\ UNCHANGED <<callVars, threshold, extraVars, pc, pipelineVars, policy, gate, routed, req,
                   response, db, redis, policies, leftAt>>

\* the positions at which a request is over
OverPositions == {"done", "notfound", "failed", "raised", "abandoned"}

\* after the requests are over, one more request with the body of r reaches
\* line 92: evaluation_cache.get(cache_key, db)
LaterGet(r) ==
    /\ later = Nothing
    /\ \A q \in Reqs : pc[q] \in OverPositions
    /\ req[r] # Nothing
    /\ later' = Some([like |-> r, up |-> redisUp,
                      got |-> CacheGet(redisUp, redis, db, The(req[r]).cache_key)])
    /\ UNCHANGED <<callVars, threshold, given, judged, pc, pipelineVars, policy, gate,
                   routed, handlerVars>>

NextHandler ==
    \/ \E r \in Reqs :
          \/ Receive(r)
          \/ Lookup(r)
          \/ Stage1(r)
          \/ Stage2(r)
          \/ Stage3(r)
          \/ Persist(r)
          \/ CacheStore(r)
          \/ PipelineRaise(r)
          \/ Abandon(r)
          \/ LaterGet(r)
    \/ \E p \in Projects : UpdatePolicy(p)
    \/ RedisFails
    \/ RedisRecovers

SpecHandler == InitHandler /\ [][NextHandler]_vars

(***************************************************************************)
(* Properties of the pipeline, the gate and the router                     *)
(***************************************************************************)

\* C1: an input whose response is empty or shorter than 10 characters after
\* trimming, or whose context is empty or has only chunks shorter than 10
\* characters after trimming, never reaches Stage 2 or Stage 3; the result
\* has stage deterministic, and the gate answers fail with severity P0 under
\* every policy and under no policy.
C1_BrokenInputStopsAndFails ==
    \A r \in Reqs :
        (/\ canonical[r] # Nothing
         /\ EmptyAnswer(The(canonical[r])) \/ NoContext(The(canonical[r])))
        => /\ pc[r] \notin {"stage2", "stage3"}
           /\ small[r] = Nothing
           /\ large[r] = Nothing
           /\ result[r] # Nothing =>
                  /\ The(result[r]).stage = "deterministic"
                  /\ ran[r] = <<"deterministic">>
           /\ gate[r] # Nothing =>
                  /\ The(gate[r]).decision = "fail"
                  /\ The(gate[r]).severity = "P0"

\* a well-formed response over an empty context, gated without a policy
C1_Witness ==
    \E r \in Reqs :
        /\ gate[r] # Nothing
        /\ policy[r] = Nothing
        /\ The(canonical[r]).context_chunks = <<>>
        /\ ~EmptyAnswer(The(canonical[r]))
        /\ The(result[r]).stage = "deterministic"
        /\ The(gate[r]).decision = "fail"

\* C2: whenever Stage 1 reports a P0 issue, the result's total_cost is zero.
C2_P0CostsNothing ==
    \A r \in Reqs :
        (result[r] # Nothing /\ HasP0Failures(The(det[r])))
        => The(result[r]).total_cost = FZero

\* C3: the stage methods run in sequence for a request: Stage 2 only after
\* Stage 1 has completed, Stage 3 only after Stage 2 has completed, and no
\* stage twice.
C3_StagesInSequence ==
    \A r \in Reqs :
        /\ \E n \in 0..3 :
               ran[r] = SubSeq(<<"deterministic", "small_model", "large_model">>,
                               1, n)
        /\ pc[r] = "stage1" => ran[r] = <<>>
        /\ pc[r] = "stage2" => ran[r] = <<"deterministic">> /\ det[r] # Nothing
        /\ pc[r] = "stage3" =>
               /\ ran[r] = <<"deterministic", "small_model">>
               /\ small[r] # Nothing
        /\ large[r] # Nothing => small[r] # Nothing
        /\ small[r] # Nothing => det[r] # Nothing

\* a request that went through all three stages
C3_Witness ==
    \E r \in Reqs :
        /\ result[r] # Nothing
        /\ ran[r] = <<"deterministic", "small_model", "large_model">>

\* C4: should_escalate at small_model answers true whenever the variance of
\* the four scores is above 0.15, whatever the confidence.
C4_DisagreementEscalates ==
    (/\ routed # Nothing
     /\ The(routed).current_stage = "small_model"
     /\ HasMetricDisagreement(The(routed).metrics))
    => The(routed).decision.should_escalate

\* C5: from deterministic, escalation happens exactly when the confidence is
\* below the threshold: in should_escalate, and in the pipeline for an input
\* without a P0 issue.
C5_EscalateIffBelowThreshold ==
    /\ (routed # Nothing /\ The(routed).current_stage = "deterministic")
       => (The(routed).decision.should_escalate
               <=> The(routed).confidence < The(routed).threshold)
    /\ \A r \in Reqs :
           (det[r] # Nothing /\ ~HasP0Failures(The(det[r])))
           => ((pc[r] = "stage2" \/ small[r] # Nothing)
                   <=> The(det[r]).confidence < threshold)

\* a clean input whose Stage-1 confidence is exactly the threshold
C5_Witness ==
    \E r \in Reqs :
        /\ result[r] # Nothing
        /\ ~HasP0Failures(The(det[r]))
        /\ The(det[r]).confidence = threshold
        /\ The(result[r]).stage = "deterministic"

\* C6: a result of stage large_model has confidence 1.0 and the quality
\* metrics Stage 3 returned, and should_escalate never answers true for
\* current_stage large_model.
C6_LargeModelIsFinal ==
    /\ \A r \in Reqs :
           (result[r] # Nothing /\ The(result[r]).stage = "large_model")
           => /\ The(result[r]).confidence = 100
              /\ large[r] # Nothing
              /\ \A k \in DOMAIN The(large[r]).metrics :
                     /\ k \in DOMAIN The(result[r]).metrics
                     /\ The(result[r]).metrics[k] = The(large[r]).metrics[k]
    /\ (routed # Nothing /\ The(routed).current_stage = "large_model")
       => ~The(routed).decision.should_escalate

\* a result that Stage 3 produced
C6_Witness ==
    \E r \in Reqs :
        /\ result[r] # Nothing
        /\ The(result[r]).stage = "large_model"
        /\ The(result[r]).metrics.faithfulness = The(large[r]).metrics.faithfulness

\* C7: total_cost is exactly the Stage-1 cost plus the cost of every later
\* stage that ran, without rounding drift: it is the float of the exact
\* decimal sum.
C7_CostIsExactSum ==
    \A r \in Reqs :
        result[r] # Nothing
        => The(result[r]).total_cost =
               ToFloat(The(det[r]).metrics.cost_per_query
                       + (IF small[r] # Nothing THEN The(small[r]).cost ELSE 0)
                       + (IF large[r] # Nothing THEN The(large[r]).cost ELSE 0))

\* C8: tokens_used accumulates over the stages that ran: a result of stage
\* small_model or large_model reports more tokens than the Stage-1 total.
C8_TokensAccumulate ==
    \A r \in Reqs :
        (result[r] # Nothing /\ The(result[r]).stage # "deterministic")
        => The(result[r]).tokens_used > The(det[r]).metrics.total_tokens

(***************************************************************************)
(* Properties of the request handler and the cache                         *)
(***************************************************************************)

\* C9: a request is served from cache only out of an evaluation stored under
\* its own policy version, evaluator version and judge model: after a bump of
\* the policy version the lookup for the same input misses and the pipeline
\* runs again.
C9_VersionBumpMisses ==
    \A r \in Reqs :
        (response[r] # Nothing /\ The(response[r]).cached)
        => \E row \in db :
               /\ row.id = The(response[r]).evaluation_id
               /\ row.cache_namespace = The(req[r]).cache_namespace

\* C10: no row and no cache entry of a request exists before its
\* pipeline.evaluate has returned normally; a request whose pipeline raised,
\* or that was abandoned inside the pipeline, leaves no row and no cache entry.
C10_NothingBeforePipelineReturns ==
    \A r \in Reqs :
        LET stored == \/ \E row \in db : row.id = r
                      \/ \E k \in DOMAIN redis : redis[k].evaluation_id = r
        IN  /\ stored => result[r] # Nothing
            /\ pc[r] \in {"idle", "notfound", "lookup", "failed", "returned"}
                   \cup PipelinePositions => ~stored
            /\ pc[r] = "raised" => ~stored
            /\ (pc[r] = "abandoned" /\ leftAt[r] \in PipelinePositions)
                   => ~stored

\* one request raised in Stage 2 while the other one's row is committed
C10_Witness ==
    \E r \in Reqs :
        /\ pc[r] = "raised"
        /\ leftAt[r] = "stage2"
        /\ det[r] # Nothing
        /\ \E row \in db : row.id # r
        /\ ~\E row \in db : row.id = r

(***************************************************************************)
(* Properties of GatePolicyEngine.evaluate                                 *)
(***************************************************************************)
Rank(severity) ==
    CASE severity = "P0" -> 0 [] severity = "P1" -> 1
      [] severity = "P2" -> 2 [] OTHER -> 3

MostCritical(severities) ==
    CHOOSE s \in severities : \A t \in severities : Rank(s) <= Rank(t)

IssueSeverities(issues) == {issues[i].severity : i \in 1..Len(issues)}
IssueCodes(issues) == [i \in 1..Len(issues) |-> issues[i].code]

\* the thresholds of a policy the metrics breach, told from the numbers alone
Given(m, k) == m[k] # Null
LowFaithfulness(m, p) ==
    Given(m, "faithfulness") /\ m.faithfulness < p.min_faithfulness
HighHallucination(m, p) ==
    Given(m, "hallucination_score") /\ m.hallucination_score > p.max_hallucination
MinorBreach(m, p) ==
    \/ m.context_recall < p.min_context_recall
    \/ m.context_precision < p.min_context_precision
    \/ Given(m, "response_latency_ms") /\ m.response_latency_ms > p.max_latency_ms
    \/ m.cost_per_query > p.max_cost_per_query
    \/ LowFaithfulness(m, p) /\ m.faithfulness >= 50
    \/ HighHallucination(m, p) /\ m.hallucination_score <= 40
MajorBreach(m, p) ==
    \/ LowFaithfulness(m, p) /\ m.faithfulness < 50
    \/ HighHallucination(m, p) /\ m.hallucination_score > 40

\* the severities the threshold checks of a call contribute
TriggeredSeverities(m, pol) ==
    IF pol = Nothing THEN {}
    ELSE (IF MinorBreach(m, The(pol)) THEN {"P2"} ELSE {})
         \cup (IF MajorBreach(m, The(pol)) THEN {"P1"} ELSE {})

GateReturnedRun == gateRun # Nothing /\ The(gateRun).out # Nothing

\* C11: within evaluate the running severity is only ever upgraded: no
\* absorbed issue and no threshold check makes it less critical, P0 once
\* reached stays, and the severity returned is the most critical of P3, the
\* issues' severities and the severities of the thresholds breached.
C11_SeverityOnlyUpgraded ==
    /\ [][gateRun # Nothing /\ gateRun' # Nothing =>
            /\ Rank(The(gateRun').g.severity) <= Rank(The(gateRun).g.severity)
            /\ The(gateRun).g.severity = "P0" => The(gateRun').g.severity = "P0"]_vars
    /\ [](GateReturnedRun =>
            LET run == The(gateRun)
                final == MostCritical({"P3"} \cup IssueSeverities(run.issues)
                            \cup TriggeredSeverities(run.metrics, run.policy))
            IN  /\ The(run.out).severity = final
                /\ GateEvaluate(run.metrics, run.policy, run.issues).severity
                       = final)

\* a P0 issue came before a P1 issue and breached thresholds, and P0 is returned
C11_Witness ==
    /\ GateReturnedRun
    /\ Len(The(gateRun).issues) = 2
    /\ The(gateRun).issues[1].severity = "P0"
    /\ The(gateRun).policy # Nothing
    /\ MajorBreach(The(gateRun).metrics, The(The(gateRun).policy))
    /\ The(The(gateRun).out).severity = "P0"

GateOut == The(The(gateRun).out)
GateAgain ==
    GateEvaluate(The(gateRun).metrics, The(gateRun).policy, The(gateRun).issues)

\* C12: the decision evaluate returns is derived from the severity and the
\* failure codes it returns: fail iff the severity is P0 or P1, warn iff it
\* is P2 or P3 with some failure code, pass iff it is P2 or P3 with none.
C12_DecisionFromSeverityAndCodes ==
    GateReturnedRun =>
        \A out \in {GateOut, GateAgain} :
            /\ out.decision \in {"fail", "warn", "pass"}
            /\ out.decision = "fail" <=> out.severity \in {"P0", "P1"}
            /\ out.decision = "warn" <=>
                   out.severity \in {"P2", "P3"} /\ out.failure_codes # <<>>
            /\ out.decision = "pass" <=>
                   out.severity \in {"P2", "P3"} /\ out.failure_codes = <<>>

\* a P3 issue alone: a failure code at severity P3 is a warning
C12_Witness ==
    /\ GateReturnedRun
    /\ GateOut.severity = "P3"
    /\ GateOut.failure_codes # <<>>
    /\ GateOut.decision = "warn"

NoGraveIssue(issues) == IssueSeverities(issues) \cap {"P0", "P1"} = {}

\* C13: evaluate fails only through a P0 or P1 contribution.  With no P0 or
\* P1 issue, breaches of recall, precision, latency and cost, of faithfulness
\* at 0.5 or more and of hallucination at 0.4 or less give warn at P2; a
\* faithfulness breach below 0.5 or a hallucination breach above 0.4 gives
\* fail at P1.
C13_OnlyP0P1Fails ==
    GateReturnedRun =>
        LET run == The(gateRun)
            grave == run.policy # Nothing
                     /\ MajorBreach(run.metrics, The(run.policy))
            minor == run.policy # Nothing
                     /\ MinorBreach(run.metrics, The(run.policy))
        IN  \A out \in {GateOut, GateAgain} :
                /\ out.decision = "fail" => ~NoGraveIssue(run.issues) \/ grave
                /\ NoGraveIssue(run.issues) /\ grave =>
                       out.severity = "P1" /\ out.decision = "fail"
                /\ NoGraveIssue(run.issues) /\ minor /\ ~grave =>
                       out.severity = "P2" /\ out.decision = "warn"

\* faithfulness 0.55 under a minimum of 0.7 and hallucination 0.3 over a
\* maximum of 0.2, with other breaches: a warning
C13_Witness ==
    /\ GateReturnedRun
    /\ The(gateRun).issues = <<>>
    /\ The(gateRun).policy = Some(DefaultPolicy)
    /\ The(gateRun).metrics.faithfulness = 55
    /\ The(gateRun).metrics.hallucination_score = 30
    /\ The(gateRun).metrics.context_recall = 50
    /\ GateOut.decision = "warn"
    /\ GateOut.severity = "P2"

\* C14: called with no policy, evaluate skips every threshold check whatever
\* the metrics: the failure codes are the issues' codes in their order, the
\* severity is the most critical issue severity (P3 with no issue), and with
\* no issue the result is (pass, P3, []).
C14_NoPolicyNoThresholds ==
    GateReturnedRun /\ The(gateRun).policy = Nothing =>
        LET issues == The(gateRun).issues
        IN  \A out \in {GateOut, GateAgain} :
                /\ out.failure_codes = IssueCodes(issues)
                /\ out.severity = MostCritical({"P3"} \cup IssueSeverities(issues))
                /\ issues = <<>> =>
                       out = [decision |-> "pass", severity |-> "P3",
                              failure_codes |-> <<>>]

\* metrics that breach the default thresholds, no policy and no issue: a pass
C14_Witness ==
    /\ GateReturnedRun
    /\ The(gateRun).policy = Nothing
    /\ The(gateRun).issues = <<>>
    /\ MajorBreach(The(gateRun).metrics, DefaultPolicy)
    /\ MinorBreach(The(gateRun).metrics, DefaultPolicy)
    /\ GateOut.decision = "pass"

(***************************************************************************)
(* Properties of ConfidenceRouter.calculate_confidence                     *)
(***************************************************************************)
\* C15: calculate_confidence returns the confidence of the variance band
\* (0.9, 0.8, 0.7 or 0.5) plus 0.1, capped at 1.0, when the mean is above
\* 0.9 or below 0.3; four equal metrics of 0.9 give 0.9, and the router does
\* not escalate from small_model at the default threshold.
C15_BandPlusBoost ==
    scored # Nothing =>
        LET m == The(scored).metrics
            band == ConfidenceBand(Scores(m))
            expected == IF ExtremeMean(Scores(m)) THEN Min(100, band + 10)
                        ELSE band
        IN  /\ The(scored).confidence =
                   (IF expected = 100 THEN FOne ELSE Hundredth(expected))
            /\ m = Metrics4(90, 90, 90, 90) =>
                   /\ The(scored).confidence = Hundredth(90)
                   /\ ~ShouldEscalate(DEFAULT_THRESHOLD, m, "small_model", 90)
                          .should_escalate

(***************************************************************************)
(* Properties of AutoFixEngine.analyze                                     *)
(***************************************************************************)
RuleNames == {Rules[i].name : i \in 1..Len(Rules)}
PriorityOf(name) ==
    (CHOOSE rule \in {Rules[i] : i \in 1..Len(Rules)} : rule.name = name).priority
FromRule(recs, name) == {i \in 1..Len(recs) : recs[i].rule_name = name}
Holds(name) == Condition(name, The(fixed).canonical, The(fixed).metrics) = "true"
Raised(name) == Condition(name, The(fixed).canonical, The(fixed).metrics) = "raise"

\* C16: analyze is not first-match: it returns exactly one recommendation
\* for each rule whose predicate holds and none for the others, and lists
\* them in non-increasing priority (10, 10, 9, 8, 5).
C16_EveryRuleThatHolds ==
    fixed # Nothing =>
        LET recs == The(fixed).recommendations
        IN  /\ \A name \in RuleNames :
                   Cardinality(FromRule(recs, name)) = IF Holds(name) THEN 1 ELSE 0
            /\ \A i \in 1..Len(recs) : recs[i].rule_name \in RuleNames
            /\ \A i, j \in 1..Len(recs) :
                   i < j => PriorityOf(recs[i].rule_name)
                                >= PriorityOf(recs[j].rule_name)
            /\ {PriorityOf(name) : name \in RuleNames} = {10, 9, 8, 5}

\* all five rules fire at once
C16_Witness ==
    /\ fixed # Nothing
    /\ \A name \in RuleNames : Holds(name)
    /\ Len(The(fixed).recommendations) = 5

\* C17: a rule whose predicate raises is treated as not applying and
\* contributes no recommendation, analyze does not raise, and every other
\* rule whose predicate holds still contributes its recommendation.
C17_RaisingPredicateSkipped ==
    fixed # Nothing /\ (\E name \in RuleNames : Raised(name)) =>
        LET recs == The(fixed).recommendations
        IN  /\ ~The(fixed).raised
            /\ \A name \in RuleNames :
                   /\ Raised(name) => FromRule(recs, name) = {}
                   /\ Holds(name) => FromRule(recs, name) # {}

\* chunk_size is None under a low faithfulness: chunk_size_too_small raises,
\* and high_hallucination still fires
C17_Witness ==
    /\ fixed # Nothing
    /\ Raised("chunk_size_too_small")
    /\ Raised("low_context_recall")
    /\ Holds("high_hallucination")
    /\ FromRule(The(fixed).recommendations, "high_hallucination") # {}
    /\ FromRule(The(fixed).recommendations, "chunk_size_too_small") = {}

\* the chunks that have a score set
WithScore(c) ==
    {i \in 1..Len(c.context_chunks) : c.context_chunks[i].score # Null}

\* C18: low_retrieval_scores fires if and only if the mean of the scores of
\* the chunks that have a score set is below 0.5, for every list of chunks
\* with at least one score set, a score of 0 included.
C18_LowRetrievalIffMeanBelowHalf ==
    fixed # Nothing /\ WithScore(The(fixed).canonical) # {} =>
        LET c == The(fixed).canonical
        IN  FromRule(The(fixed).recommendations, "low_retrieval_scores") # {}
                <=> SumScores(c.context_chunks, WithScore(c))
                        < 50 * Cardinality(WithScore(c))

(***************************************************************************)
(* Properties of generate_cache_key                                        *)
(***************************************************************************)
SameInputs(c1, c2) ==
    /\ c1.query = c2.query
    /\ c1.response = c2.response
    /\ c1.context_chunks = c2.context_chunks

VersionFields == {"policy_version", "judge_model", "evaluator_version"}
Differing(c1, c2) == {f \in VersionFields : c1[f] # c2[f]}

\* C19: two calls with the same query, chunks and response that differ in
\* exactly one of policy_version, judge_model and evaluator_version get
\* different cache namespaces, hence different cache keys, and the same
\* input hash.
C19_OneVersionFieldChangesNamespace ==
    /\ keyed # Nothing
    /\ SameInputs(The(keyed).first, The(keyed).second)
    /\ Cardinality(Differing(The(keyed).first, The(keyed).second)) = 1
    => /\ The(keyed).a.cache_namespace # The(keyed).b.cache_namespace
       /\ The(keyed).a.cache_key # The(keyed).b.cache_key
       /\ The(keyed).a.input_hash = The(keyed).b.input_hash

\* the two calls differ in the judge model alone
C19_Witness ==
    /\ keyed # Nothing
    /\ SameInputs(The(keyed).first, The(keyed).second)
    /\ The(keyed).first.context_chunks # <<>>
    /\ Differing(The(keyed).first, The(keyed).second) = {"judge_model"}
    /\ The(keyed).a.cache_key # The(keyed).b.cache_key

\* two chunk lists that agree on every chunk but for its metadata
SameChunksButMetadata(x, y) ==
    /\ Len(x) = Len(y)
    /\ \A i \in 1..Len(x) :
          /\ x[i].text = y[i].text
          /\ x[i].source_id = y[i].source_id
          /\ x[i].rank = y[i].rank
          /\ x[i].score = y[i].score

\* C20: the input hash depends on the query, the response and the ordered
\* chunks and on no metadata or timestamp: two calls that differ only in a
\* metadata mapping, the evaluation's or a chunk's, or in timestamps get
\* the same input hash.
C20_HashIgnoresMetadata ==
    /\ keyed # Nothing
    /\ The(keyed).first.query = The(keyed).second.query
    /\ The(keyed).first.response = The(keyed).second.response
    /\ SameChunksButMetadata(The(keyed).first.context_chunks,
                             The(keyed).second.context_chunks)
    => The(keyed).a.input_hash = The(keyed).b.input_hash

(***************************************************************************)
(* Properties of the cache under failures and concurrent requests          *)
(***************************************************************************)
\* C21: when Redis cannot be reached or raises, EvaluationCache.get and set
\* do not raise: get falls through to the database and returns a hit or a
\* miss, set changes nothing, and no request ends at its cache lookup.
C21_RedisDownIsTolerated ==
    /\ later # Nothing /\ ~The(later).up =>
           The(later).got.outcome \in {"hit", "miss"}
    /\ \A r \in Reqs :
           /\ pc[r] # "failed"
           /\ req[r] # Nothing =>
                  CacheSet(FALSE, redis, The(req[r]).cache_key, Nothing) = redis

\* C25: however concurrent requests with one cache key interleave, two of
\* them missing the cache and both persisting a row with the same
\* input_hash included, every later EvaluationCache.get for that key ends
\* with a hit or a miss, never with an error.
C25_LaterGetNeverErrs ==
    later # Nothing =>
        LET key == The(req[The(later).like]).cache_key
        IN  /\ The(later).got.outcome # "error"
            /\ Cardinality(RowsWithHash(db, key)) > 1 =>
                   The(later).got.outcome = "hit"

\* C26: a cached result the handler returns to a request of project P in
\* organization O was produced by an earlier evaluation of the same project
\* and organization.
C26_CacheHitsStayInTenant ==
    \A r \in Reqs :
        response[r] # Nothing /\ The(response[r]).cached =>
            LET made == The(req[The(response[r]).evaluation_id])
            IN  /\ made.project_id = The(req[r]).project_id
                /\ made.organization_id = The(req[r]).organization_id

(***************************************************************************)
(* Properties of the judge wrappers                                        *)
(***************************************************************************)
\* C22: a failure of the judge backend never propagates: when the scoring
\* library is not installed, or raises during scoring, RAGASWrapper.evaluate
\* and DeepEvalWrapper.evaluate return a synthetic result, and every metric
\* of it lies in [0, 1].
C22_JudgeFailureGivesSyntheticResult ==
    judged # Nothing /\ (~The(judged).available \/ The(judged).failed) =>
        LET res == The(judged).result
        IN  /\ res.outcome = "returned"
            /\ res.synthetic
            /\ DOMAIN res.metrics =
                   IF The(judged).wrapper = "ragas"
                   THEN {"faithfulness", "answer_relevancy",
                         "context_precision", "context_recall"}
                   ELSE {"hallucination_score"}
            /\ \A k \in DOMAIN res.metrics :
                   res.metrics[k] >= 0 /\ res.metrics[k] <= 100

\* the library is installed and raises during scoring
C22_Witness ==
    /\ judged # Nothing
    /\ The(judged).wrapper = "ragas"
    /\ The(judged).available
    /\ The(judged).failed
    /\ The(judged).result.synthetic
    /\ The(judged).result.metrics.faithfulness = 100

(***************************************************************************)
(* Properties of concurrent calls of the one pipeline                      *)
(***************************************************************************)
\* what pipeline.evaluate returns for an input when it runs alone
RunAlone(c, t) ==
    LET d == Stage1Deterministic(c)
        s == Stage2SmallModel(c, d)
    IN  IF HasP0Failures(d)
        THEN BuildResult("deterministic", d, Nothing, Nothing, 100)
        ELSE IF d.confidence >= t
        THEN BuildResult("deterministic", d, Nothing, Nothing, d.confidence)
        ELSE IF s.confidence >= t
        THEN BuildResult("small_model", d, Some(s), Nothing, s.confidence)
        ELSE BuildResult("large_model", d, Some(s), Some(Stage3LargeModel(c)),
                         100)

\* C23: however several calls of evaluate on the one pipeline instance
\* interleave at the stage boundaries, each returns the stage, metrics,
\* issues, confidence, total_cost and tokens_used it returns when run alone.
C23_CallsDoNotInterfere ==
    \A r \in Reqs :
        result[r] # Nothing =>
            The(result[r]) = RunAlone(The(canonical[r]), threshold)

\* one call has returned at Stage 1 on a broken input while another, on a
\* different input, is between Stage 2 and Stage 3
C23_Witness ==
    /\ pc["r1"] = "returned"
    /\ result["r1"] # Nothing
    /\ The(result["r1"]).stage = "deterministic"
    /\ pc["r2"] = "stage3"
    /\ small["r2"] # Nothing
    /\ canonical["r1"] # canonical["r2"]

(***************************************************************************)
(* The gate and the order of the issues                                    *)
(***************************************************************************)
Orders(n) == {f \in [1..n -> 1..n] : \A i, j \in 1..n : f[i] = f[j] => i = j}
Reordered(issues, f) == [i \in 1..Len(issues) |-> issues[f[i]]]
Times(codes, c) == Cardinality({i \in 1..Len(codes) : codes[i] = c})
SameCodes(a, b) ==
    /\ Len(a) = Len(b)
    /\ \A i \in 1..Len(a) : Times(a, a[i]) = Times(b, a[i])

\* C24: the severity and the decision evaluate returns do not depend on the
\* order of the issues: every reordering of the issues, equal severities
\* included, gives the same severity and the same decision, and the same
\* failure codes up to their order.
C24_IssueOrderIsImmaterial ==
    GateReturnedRun =>
        LET run == The(gateRun)
        IN  \A f \in Orders(Len(run.issues)) :
                LET other == GateEvaluate(run.metrics, run.policy,
                                          Reordered(run.issues, f))
                IN  /\ other.severity = GateOut.severity
                    /\ other.decision = GateOut.decision
                    /\ SameCodes(other.failure_codes, GateOut.failure_codes)

\* a run on three issues, two of them of equal severity, under a policy
C24_Witness ==
    /\ GateReturnedRun
    /\ Len(The(gateRun).issues) = 3
    /\ The(gateRun).issues[1].severity = The(gateRun).issues[3].severity
    /\ The(gateRun).issues[1].code # The(gateRun).issues[3].code
    /\ The(gateRun).policy # Nothing
    /\ GateOut.severity = "P1"

(***************************************************************************)
(* The pipeline's and the router's Stage-2 decisions                       *)
(***************************************************************************)
\* C27: for every Stage-2 metric set and the same threshold, the pipeline
\* stops at small_model exactly when the router, given its own
\* calculate_confidence of the metrics, answers should_escalate = false.
C27_PipelineAndRouterAgree ==
    scored # Nothing =>
        (The(scored).stage2 = "returned" <=> ~The(scored).escalate)

(***************************************************************************)
(* Stage 1 under the default threshold                                     *)
(***************************************************************************)
\* C28: under the default threshold 0.80 the pipeline returns the stage
\* deterministic only if Stage 1 reported a P0 issue: an input without a P0
\* issue, with no issue or with TOKEN_LIMIT_EXCEEDED alone, has a Stage-1
\* confidence below the threshold and runs Stage 2.
C28_DeterministicOnlyOnP0 ==
    threshold = SettingsThreshold =>
        \A r \in Reqs :
            /\ result[r] # Nothing /\ The(result[r]).stage = "deterministic"
                   => HasP0Failures(The(det[r]))
            /\ det[r] # Nothing /\ ~HasP0Failures(The(det[r])) =>
                   /\ The(det[r]).confidence < threshold
                   /\ pc[r] = "stage2" \/ small[r] # Nothing

\* an input whose only issue is TOKEN_LIMIT_EXCEEDED has gone through Stage 2
\* of a pipeline built without a threshold
C28_Witness ==
    /\ given = Null
    /\ threshold = SettingsThreshold
    /\ det["r1"] # Nothing
    /\ IssueCodes(The(det["r1"]).issues) = <<"TOKEN_LIMIT_EXCEEDED">>
    /\ small["r1"] # Nothing
    /\ result["r1"] # Nothing
    /\ The(result["r1"]).stage # "deterministic"

(***************************************************************************)
(* What the recommendations change                                         *)
(***************************************************************************)
\* C29: every recommendation analyze returns proposes a change: its
\* recommended_value differs from its current_value; cost_too_high never
\* recommends the model already configured, low_retrieval_scores never the
\* embedding model already in use.
C29_RecommendationsChangeSomething ==
    fixed # Nothing /\ ~The(fixed).raised =>
        \A i \in 1..Len(The(fixed).recommendations) :
            The(fixed).recommendations[i].recommended_value
                # The(fixed).recommendations[i].current_value

(***************************************************************************)
(* The threshold a pipeline or a router is built with                      *)
(***************************************************************************)
\* C30: a router or a pipeline built with an explicit confidence threshold
\* t uses exactly t in every comparison, for every t in [0, 1], t = 0
\* included: with t = 0 no stage escalates on confidence.
C30_ExplicitThresholdIsUsed ==
    /\ given # Null => threshold = given
    /\ given = 0 =>
           \A r \in Reqs :
               /\ pc[r] \notin {"stage2", "stage3"}
               /\ result[r] # Nothing => The(result[r]).stage = "deterministic"
    /\ routed # Nothing /\ The(routed).given # Null =>
           /\ The(routed).threshold = The(routed).given
           /\ The(routed).given = 0 /\ The(routed).current_stage # "large_model"
                  => ~The(routed).decision.should_escalate

====
